---- MODULE Spec2Model ----
(***************************************************************************)
(* Order lifecycle and stock reservation of the flower sales system.       *)
(*                                                                         *)
(* The model follows internal/order/service.go (orderService) statement by *)
(* statement: every call into a repository is one SQL statement (or, for   *)
(* orderRepository.Create, one SQL transaction) and is one atomic step of  *)
(* the model; request handlers run concurrently, one per process.          *)
(* Every repository write (UpdateStock, Create, UpdateStatus, CreateLog)    *)
(* can return an error, the `if err != nil` branch of its caller; the      *)
(* number of such failures in one behaviour is bounded by MaxFaults.  A    *)
(* repository read returns what the tables hold, or not-found.             *)
(* Order numbers and user ids are only ever compared for equality, so a    *)
(* freshly generated order number is the least unused one.                 *)
(*                                                                         *)
(* The in-memory session manager of internal/auth/session.go is modelled   *)
(* beside it, with a specification of its own (SpecSession): the map of    *)
(* sessions, a clock, and clients calling its four methods; a step is what *)
(* a method does while it holds the mutex, or one reading of the clock.    *)
(***************************************************************************)
EXTENDS Integers, Sequences, FiniteSets, TLC

\* ---------------------------------------------------------------- bounds
NumProcs == 2        \* concurrently running request handlers
MaxStock == 1        \* initial stock of every active catalog item
MaxQty == 1          \* largest quantity on a request line
MaxLines == 2        \* largest number of lines of one request
MaxOrders == 2       \* orders created in one behaviour
MaxFaults == 1       \* repository writes that return an error
MaxRestock == 1      \* total quantity received through AddStock
MaxCalls == 3        \* requests served in one behaviour
NumClients == 2      \* concurrent callers of the session manager
MaxTime == 3         \* readings of the clock, in units of 12 hours
MaxSessionOps == 4   \* session manager calls in one behaviour

Procs == 1..NumProcs

\* ------------------------------------------------------------- catalog
\* Rows of table flowers.  "Z" is a SKU no row exists for.
Catalog == {"A", "B", "C"}
SKUs == Catalog \cup {"Z"}

\* flowers.is_active: "C" has been taken off the shelf, with stock left.
IsActive == [s \in Catalog |-> s # "C"]

\* flowers.sale_price, in cents.
SalePrice == [s \in Catalog |-> IF s = "A" THEN 2 ELSE 3]

\* flowers.stock at start-up.
InitStock == [s \in Catalog |-> IF s = "C" THEN 1 ELSE MaxStock]

\* Rows of table users: 1 and 2 are customers, 3 is a clerk.  The order service never
\* reads a role.
Users == {1, 2, 3}
Clerks == {3}

\* The user the requests of the concurrent specification come from.  User ids
\* take no part in the stock and status logic: the service copies them into
\* the rows it writes and reads them back only in GetOrder's owner check.
Callers == {1}

\* Action labels of the audit log.
Actions == {"create_order", "complete_order", "cancel_order"}

StatusPending == "pending"
StatusCompleted == "completed"
StatusCancelled == "cancelled"

VARIABLES
    stock,      \* flowers.stock, per SKU
    orders,     \* table orders with its order_items, in id order
    logs,       \* table order_logs, per order id, in insertion order
    h,          \* the request handlers: position and locals of each
    faults,     \* repository errors so far
    calls,      \* requests accepted so far
    added,      \* history: quantity received per SKU through AddStock
    pre,        \* history: the stores when a call began with no other in flight
    ops,        \* history: operations that returned success, per order and action
    lost,       \* history: log writes that failed, per order and action
    restored,   \* history: quantity CancelOrder returned to stock, per order
    sessions,   \* MemorySessionManager.sessions: token -> ExpiresAt
    now,        \* the clock time.Now() reads
    c,          \* the session manager's clients: position and locals of each
    sops,       \* session manager calls so far
    issued      \* history: per token, what was done to it

orderVars ==
    <<stock, orders, logs, h, faults, calls, added, pre, ops, lost, restored>>

sessionVars == <<sessions, now, c, sops, issued>>

vars == <<stock, orders, logs, h, faults, calls, added, pre, ops, lost, restored,
          sessions, now, c, sops, issued>>

stores == <<stock, orders, logs>>

\* -------------------------------------------------------------- helpers
RECURSIVE SumQty(_, _)
SumQty(lines, sku) ==
    IF lines = <<>> THEN 0
    ELSE (IF Head(lines).sku = sku THEN Head(lines).qty ELSE 0)
         + SumQty(Tail(lines), sku)

RECURSIVE SumSubtotal(_)
SumSubtotal(its) ==
    IF its = <<>> THEN 0 ELSE Head(its).subtotal + SumSubtotal(Tail(its))

RECURSIVE SumAdded(_)
SumAdded(S) ==
    IF S = {} THEN 0
    ELSE LET s == CHOOSE x \in S : TRUE IN added[s] + SumAdded(S \ {s})

Ok == [kind |-> "ok", current |-> ""]
Err(k) == [kind |-> k, current |-> ""]

\* A handler: pc its position, op the operation it serves, req the request
\* lines validateAndPrepareItems has accepted, n = len(req.Items), items the
\* orderItems prepared (CreateOrder) or read (CancelOrder), total the
\* totalAmount accumulated over them, idx the index of
\* the loop it is in, failed the SKU of rollbackStock's failedItem ("nil" for
\* nil), oid the order id, old the order.Status read by GetByID, result what
\* it returned.  A local the code does not read again is reset.
\* user is the userID / operatorID the call was made with (0: none), addr the
\* request's AddressID, dup whether orderRepo.Create failed on a duplicate order
\* number, view the orders GetOrder or ListOrders returned (<<>>: none), line
\* the request line at which validateAndPrepareItems returned an error
\* (<<>>: none), filter the status filter ListOrders was called with.
Idle ==
    [pc |-> "idle", op |-> "none", user |-> 0, addr |-> 0, req |-> <<>>, n |-> 0,
     items |-> <<>>, total |-> 0, idx |-> 0, failed |-> "nil", oid |-> 0,
     old |-> "", dup |-> FALSE, view |-> <<>>, line |-> <<>>, filter |-> "",
     result |-> Ok]

\* The handler returned r.
Returned(kind, r) == [Idle EXCEPT !.pc = "done", !.op = kind, !.result = r]

\* Outcomes of a repository write: TRUE it succeeds, FALSE it returns an error.
Outcomes == IF faults < MaxFaults THEN {TRUE, FALSE} ELSE {TRUE}

Fault(ok) == faults' = IF ok THEN faults ELSE faults + 1

NoSnapshot == [valid |-> FALSE, stock |-> InitStock, orders |-> <<>>,
               logs |-> [o \in 1..MaxOrders |-> <<>>]]
Snapshot == [valid |-> TRUE, stock |-> stock, orders |-> orders, logs |-> logs]

Quiescent(p) == \A q \in Procs \ {p} : h[q].pc = "idle"

\* Handlers are interchangeable: a request is served by the lowest free one.
Free(p) == h[p].pc = "idle" /\ \A q \in Procs : q < p => h[q].pc # "idle"

\* A request arrives and handler p takes it.
BeginCall(p) ==
    /\ Free(p)
    /\ calls < MaxCalls
    /\ calls' = calls + 1
    /\ pre' = IF Quiescent(p) THEN Snapshot ELSE NoSnapshot

\* ------------------------------------------------------ pure functions
\* Mutant: the statement assigns the delta instead of adding it.
UpdateStock_Assigns(st, sku, delta) == [st EXCEPT ![sku] = delta]

\* flowerRepository.UpdateStock: UPDATE flowers SET stock = stock + ?
UpdateStock(st, sku, delta) == [st EXCEPT ![sku] = @ + delta]

\* Mutant: the subtotal adds the quantity instead of multiplying by it.
NewOrderItem_Adds(sku, qty, unitPrice) ==
    [sku |-> sku, qty |-> qty, unitPrice |-> unitPrice,
     subtotal |-> unitPrice + qty]

\* NewOrderItem: Subtotal = unitPrice * quantity
NewOrderItem(sku, qty, unitPrice) ==
    [sku |-> sku, qty |-> qty, unitPrice |-> unitPrice,
     subtotal |-> unitPrice * qty]

\* Mutant: a line naming the item of an earlier line is merged into it.
RECURSIVE AppendItem_Merged(_, _)
AppendItem_Merged(its, item) ==
    IF its = <<>> THEN <<item>>
    ELSE IF Head(its).sku = item.sku
    THEN <<[Head(its) EXCEPT !.qty = @ + item.qty,
                             !.subtotal = @ + item.subtotal]>> \o Tail(its)
    ELSE <<Head(its)>> \o AppendItem_Merged(Tail(its), item)

\* validateAndPrepareItems: orderItems = append(orderItems, orderItem)
AppendItem(its, item) == Append(its, item)

\* Mutant: the stock comparison is inverted.
InsufficientStock_Inverted(available, qty) == available > qty

\* validateAndPrepareItems: `flw.Stock < item.Quantity`
InsufficientStock(available, qty) == available < qty

\* Mutant: only a cancelled order is rejected.
CanTransition_Completed(status) == status # StatusCancelled

\* CompleteOrder / CancelOrder: `order.Status != StatusPending` rejects
CanTransition(status) == status = StatusPending

\* rollbackStock: the loop reaches item i and does not break there
RollbackContinues(its, failed, i) ==
    /\ i <= Len(its)
    /\ ~(failed # "nil" /\ its[i].sku = failed)

\* Mutant: a zero quantity passes the check.
InvalidQuantity_Negative(qty) == qty < 0

\* validateAndPrepareItems: `item.Quantity <= 0` rejects
InvalidQuantity(qty) == qty <= 0

\* Mutant: CompleteOrder runs the restoring loop of CancelOrder too.
AfterStatusCheck_Restore(kind) == "restore"

\* What follows the status check: CancelOrder restores the stock of the
\* order's items first, CompleteOrder goes on to the status write.
AfterStatusCheck(kind) == IF kind = "cancel" THEN "restore" ELSE "status"

\* Mutant: CancelOrder returns the error of a failed restoration.
RestoreContinues_Aborts(ok) == ok

\* CancelOrder's loop after flowerRepo.UpdateStock: its error is printed and
\* the loop goes on.
RestoreContinues(ok) == TRUE

\* Mutant: the error of CreateLog is returned to the caller.
LogResult_Propagates(ok) == IF ok THEN Ok ELSE Err("log")

\* CreateOrder / CompleteOrder / CancelOrder after logRepo.CreateLog: the
\* error is printed, the method returns nil.
LogResult(ok) == Ok

\* Mutant: the statement also clears the total.
SetStatus_ClearsTotal(os, id, status) ==
    [os EXCEPT ![id].status = status, ![id].total = 0]

\* orderRepository.UpdateStatus: UPDATE orders SET status = ? WHERE id = ?
SetStatus(os, id, status) == [os EXCEPT ![id].status = status]

\* Mutant: the owner check lets every user through.
Owns_Anyone(order, userID) == TRUE

\* GetOrder: `order.UserID != userID` rejects
Owns(order, userID) == order.userID = userID

\* Mutant: an id no order has reads the order written last.
OrderByID_Latest(os, id) ==
    IF os = <<>> THEN <<>>
    ELSE <<os[IF id \in 1..Len(os) THEN id ELSE Len(os)]>>

\* orderRepository.GetByID: SELECT ... FROM orders WHERE id = ?, the row found
\* (with its items) or none (sql.ErrNoRows).
OrderByID(os, id) == IF id \in 1..Len(os) THEN <<os[id]>> ELSE <<>>

\* Mutant: the query leaves out the user condition.
MatchesFilter_AnyUser(order, userID, status, orderNo) ==
    /\ status # "" => order.status = status
    /\ orderNo # 0 => order.orderNo = orderNo

\* orderRepository.List, the WHERE clause: each condition is added only when
\* its filter field is set (UserID > 0, Status # "", OrderNo # ""; 0 stands
\* for the empty order-number pattern, a number for the pattern of that
\* number).
MatchesFilter(order, userID, status, orderNo) ==
    /\ userID > 0 => order.userID = userID
    /\ status # "" => order.status = status
    /\ orderNo # 0 => order.orderNo = orderNo

\* ORDER BY created_at DESC over rows kept in insertion order.
RECURSIVE Newest(_)
Newest(rows) ==
    IF rows = <<>> THEN <<>> ELSE Newest(Tail(rows)) \o <<Head(rows)>>

\* orderRepository.List, LIMIT ? OFFSET ?: added only when Page > 0 and
\* PageSize > 0.
PageOf(rows, page, pageSize) ==
    IF page > 0 /\ pageSize > 0
    THEN LET first == (page - 1) * pageSize + 1
             last == IF page * pageSize < Len(rows) THEN page * pageSize
                     ELSE Len(rows)
         IN IF first > last THEN <<>> ELSE SubSeq(rows, first, last)
    ELSE rows

\* orderRepository.List(filter)
List(os, userID, status, orderNo, page, pageSize) ==
    PageOf(Newest(SelectSeq(os, LAMBDA o : MatchesFilter(o, userID, status, orderNo))),
           page, pageSize)

\* GenerateOrderNo: a number persisted already (a collision), or a fresh one.
OrderNos(os) == 1..(Len(os) + 1)

\* UNIQUE KEY on orders.order_no: the insert of orderNo is refused.
Duplicate(os, orderNo) == \E i \in 1..Len(os) : os[i].orderNo = orderNo

\* NewOrder + order.TotalAmount = totalAmount, id from LastInsertId
NewOrder(id, orderNo, userID, its, totalAmount) ==
    [id |-> id, orderNo |-> orderNo, userID |-> userID, status |-> StatusPending,
     items |-> its, total |-> totalAmount]

\* Mutant: the two status arguments are stored the other way round.
NewOrderLog_Swapped(orderID, operatorID, action, newStatus, oldStatus) ==
    [orderID |-> orderID, operatorID |-> operatorID, action |-> action,
     oldStatus |-> newStatus, newStatus |-> oldStatus]

\* NewOrderLog(orderID, operatorID, action, newStatus, oldStatus)
NewOrderLog(orderID, operatorID, action, newStatus, oldStatus) ==
    [orderID |-> orderID, operatorID |-> operatorID, action |-> action,
     oldStatus |-> oldStatus, newStatus |-> newStatus]

\* ------------------------------------------------------ session manager
\* CreateSession: ExpiresAt = time.Now().Add(24 * time.Hour), in clock units.
SessionTTL == 2

\* Tokens generateToken can return, and the tokens a caller can pass.
Tokens == {"t1", "t2"}
TokenArgs == Tokens \cup {""}

Clients == 1..NumClients

\* Mutant: a session counts as expired at its deadline already.
Expired_AtDeadline(time, expiresAt) == time >= expiresAt

\* time.Now().After(session.ExpiresAt)
Expired(time, expiresAt) == time > expiresAt

\* m.sessions[token] = session
Put(ss, token, expiresAt) ==
    [t \in DOMAIN ss \cup {token} |-> IF t = token THEN expiresAt ELSE ss[t]]

\* delete(m.sessions, token)
Remove(ss, token) == [t \in DOMAIN ss \ {token} |-> ss[t]]

\* CleanupExpiredSessions: the loop deleting every session now is after.
Sweep(ss, time) == [t \in {x \in DOMAIN ss : ~Expired(time, ss[x])} |-> ss[t]]

\* A client: pc its position, op the method it called, token its argument (or
\* the token generated), exp the ExpiresAt of the session it holds, result
\* what the method returned.  History: live and due, whether the token was
\* created and not removed since when ValidateSession looked it up, and the
\* deadline it had been created with; at, the clock ValidateSession read.
Resting ==
    [pc |-> "idle", op |-> "none", token |-> "", exp |-> 0, live |-> FALSE,
     due |-> 0, at |-> 0, result |-> "ok"]

\* The method returned r.
Answered(op, token, r) ==
    [Resting EXCEPT !.pc = "done", !.op = op, !.token = token, !.result = r]

NoHistory == [created |-> FALSE, removed |-> FALSE, exp |-> 0]

Init ==
    /\ sessions = <<>>
    /\ now = 0
    /\ c = [q \in Clients |-> Resting]
    /\ sops = 0
    /\ issued = [t \in Tokens |-> NoHistory]
    /\ stock = InitStock
    /\ orders = <<>>
    /\ logs = [o \in 1..MaxOrders |-> <<>>]
    /\ h = [p \in Procs |-> Idle]
    /\ faults = 0
    /\ calls = 0
    /\ added = [s \in Catalog |-> 0]
    /\ pre = NoSnapshot
    /\ ops = [o \in 1..MaxOrders |-> [a \in Actions |-> 0]]
    /\ lost = [o \in 1..MaxOrders |-> [a \in Actions |-> 0]]
    /\ restored = [o \in 1..MaxOrders |-> 0]

\* ------------------------------------------------------------- CreateOrder
\* Orders written so far plus CreateOrder calls that may still write one.
Creating ==
    Cardinality({q \in Procs : h[q].op = "create" /\ h[q].pc \notin {"idle", "done"}})

\* CreateOrder entry and validateCreateRequest.
BeginCreateOrder(p, userID, addressID, n) ==
    /\ Len(orders) + Creating < MaxOrders
    /\ h' = [h EXCEPT ![p] =
              IF addressID <= 0
              THEN [Returned("create", Err("address")) EXCEPT !.addr = addressID]
              ELSE IF n = 0
              THEN [Returned("create", Err("empty")) EXCEPT !.addr = addressID]
              ELSE [Idle EXCEPT !.pc = "validate", !.op = "create",
                                !.user = userID, !.addr = addressID, !.n = n,
                                !.idx = 1]]
    /\ BeginCall(p)
    /\ UNCHANGED <<stores, faults, added>>
    /\ UNCHANGED <<ops, lost, restored>>
    /\ UNCHANGED sessionVars

\* The iteration failed with error kind k at request line idx = (sku, qty).
LineRejected(p, k, sku, qty) ==
    [Returned("create", Err(k)) EXCEPT
        !.idx = h[p].idx, !.line = <<[sku |-> sku, qty |-> qty]>>]

\* One iteration of the loop of validateAndPrepareItems, on request line
\* idx = (sku, qty), with flowerRepo.GetBySKU reading the row of sku.
ValidateLine(p, sku, qty) ==
    /\ h[p].pc = "validate"
    /\ h' = [h EXCEPT ![p] =
              IF InvalidQuantity(qty) THEN LineRejected(p, "quantity", sku, qty)
              ELSE IF sku \notin Catalog THEN LineRejected(p, "flower", sku, qty)
              ELSE IF ~IsActive[sku] THEN LineRejected(p, "inactive", sku, qty)
              ELSE IF InsufficientStock(stock[sku], qty) THEN LineRejected(p, "stock", sku, qty)
              ELSE [@ EXCEPT
                      !.req = Append(@, [sku |-> sku, qty |-> qty]),
                      !.items = AppendItem(@, NewOrderItem(sku, qty, SalePrice[sku])),
                      !.total = @ + NewOrderItem(sku, qty, SalePrice[sku]).subtotal,
                      !.idx = IF h[p].idx < h[p].n THEN @ + 1 ELSE 1,
                      !.pc = IF h[p].idx < h[p].n THEN "validate" ELSE "deduct"]]
    /\ UNCHANGED <<stores, faults, calls, added, pre>>
    /\ UNCHANGED <<ops, lost, restored>>
    /\ UNCHANGED sessionVars

\* executeCreateOrderTransaction's error once rollbackStock is over: the stock
\* deduction failed (failedItem set) or the order write failed (failedItem nil).
RollbackError(failed) == IF failed = "nil" THEN "create" ELSE "deduct"

\* Where rollbackStock(items, failedItem) leaves the handler: in the loop at
\* its first item, or returned with the error when the loop body never runs.
EnterRollback(p, failed) ==
    IF RollbackContinues(h[p].items, failed, 1)
    THEN [h[p] EXCEPT !.pc = "rollback", !.idx = 1, !.failed = failed]
    ELSE Returned("create", Err(RollbackError(failed)))

\* One iteration of the first loop of executeCreateOrderTransaction:
\* flowerRepo.UpdateStock(item.FlowerSKU, -item.Quantity).
DeductLine(p, ok) ==
    /\ h[p].pc = "deduct"
    /\ LET item == h[p].items[h[p].idx] IN
       /\ stock' = IF ok THEN UpdateStock(stock, item.sku, -item.qty) ELSE stock
       /\ h' = [h EXCEPT ![p] =
                 IF ~ok THEN EnterRollback(p, item.sku)
                 ELSE IF h[p].idx < Len(h[p].items) THEN [@ EXCEPT !.idx = @ + 1]
                 ELSE [@ EXCEPT !.pc = "persist", !.idx = 0]]
    /\ Fault(ok)
    /\ UNCHANGED <<orders, logs, calls, added, pre>>
    /\ UNCHANGED <<ops, lost, restored>>
    /\ UNCHANGED sessionVars

\* orderRepo.Create: one transaction inserting the order, under the order
\* number GenerateOrderNo drew for it, and its items.  The insert fails when
\* the statement fails or the order number is taken.
PersistOrder(p, orderNo, ok) ==
    /\ h[p].pc = "persist"
    /\ LET done == ok /\ ~Duplicate(orders, orderNo) IN
       /\ orders' = IF done
                    THEN Append(orders, NewOrder(Len(orders) + 1, orderNo,
                                                 h[p].user, h[p].items, h[p].total))
                    ELSE orders
       /\ h' = [h EXCEPT ![p] =
                 IF done THEN [@ EXCEPT !.pc = "log", !.oid = Len(orders) + 1,
                                        !.items = <<>>, !.total = 0]
                 ELSE [EnterRollback(p, "nil") EXCEPT
                         !.dup = Duplicate(orders, orderNo)]]
    /\ Fault(ok)
    /\ UNCHANGED <<stock, logs, calls, added, pre>>
    /\ UNCHANGED <<ops, lost, restored>>
    /\ UNCHANGED sessionVars

\* One iteration of the loop of rollbackStock:
\* flowerRepo.UpdateStock(item.FlowerSKU, item.Quantity), its error ignored.
RollbackLine(p, ok) ==
    /\ h[p].pc = "rollback"
    /\ LET item == h[p].items[h[p].idx] IN
       stock' = IF ok THEN UpdateStock(stock, item.sku, item.qty) ELSE stock
    /\ h' = [h EXCEPT ![p] =
              IF RollbackContinues(h[p].items, h[p].failed, h[p].idx + 1)
              THEN [@ EXCEPT !.idx = @ + 1]
              ELSE [Returned("create", Err(RollbackError(h[p].failed))) EXCEPT
                      !.dup = h[p].dup]]
    /\ Fault(ok)
    /\ UNCHANGED <<orders, logs, calls, added, pre>>
    /\ UNCHANGED <<ops, lost, restored>>
    /\ UNCHANGED sessionVars

\* The action label of operation op.
ActionOf(op) ==
    IF op = "create" THEN "create_order"
    ELSE IF op = "complete" THEN "complete_order"
    ELSE "cancel_order"

\* Mutant: every operation logs under the label of CreateOrder.
LogOf_CreateOrder(p) ==
    NewOrderLog(h[p].oid, h[p].user, "create_order", StatusPending, "")

\* The log entry the handler at "log" writes.
LogOf(p) ==
    IF h[p].op = "create"
    THEN NewOrderLog(h[p].oid, h[p].user, ActionOf("create"), StatusPending, "")
    ELSE IF h[p].op = "complete"
    THEN NewOrderLog(h[p].oid, h[p].user, ActionOf("complete"), StatusCompleted,
                     h[p].old)
    ELSE NewOrderLog(h[p].oid, h[p].user, ActionOf("cancel"), StatusCancelled,
                     h[p].old)

\* logRepo.CreateLog at the end of CreateOrder, CompleteOrder and
\* CancelOrder; its error is printed and the handler returns nil.
WriteLog(p, ok) ==
    /\ h[p].pc = "log"
    /\ logs' = IF ok THEN [logs EXCEPT ![h[p].oid] = Append(@, LogOf(p))] ELSE logs
    /\ h' = [h EXCEPT ![p] = [@ EXCEPT !.pc = "done", !.result = LogResult(ok),
                                        !.old = ""]]
    /\ ops' = IF LogResult(ok) = Ok
              THEN [ops EXCEPT ![h[p].oid][ActionOf(h[p].op)] = @ + 1]
              ELSE ops
    /\ lost' = IF ok THEN lost
               ELSE [lost EXCEPT ![h[p].oid][ActionOf(h[p].op)] = @ + 1]
    /\ Fault(ok)
    /\ UNCHANGED <<stock, orders, calls, added, pre, restored>>
    /\ UNCHANGED sessionVars

\* ------------------------------------------- CompleteOrder / CancelOrder
\* Entry of CompleteOrder (kind = "complete") or CancelOrder ("cancel") called
\* with (id, operatorID): orderRepo.GetByID and the status check.
GetByID(p, kind, id, operatorID) ==
    /\ h' = [h EXCEPT ![p] =
              LET found == OrderByID(orders, id) IN
              IF found = <<>>
              THEN [Returned(kind, Err("notfound")) EXCEPT
                      !.oid = id, !.user = operatorID]
              ELSE IF ~CanTransition(found[1].status)
              THEN [Returned(kind, [kind |-> "transition",
                                    current |-> found[1].status])
                      EXCEPT !.oid = id, !.user = operatorID]
              ELSE LET pc == AfterStatusCheck(kind) IN
                   [Idle EXCEPT !.pc = pc, !.op = kind, !.user = operatorID,
                                !.oid = id, !.old = found[1].status,
                                !.items = IF pc = "restore" THEN found[1].items
                                          ELSE <<>>,
                                !.idx = IF pc = "restore" THEN 1 ELSE 0]]
    /\ BeginCall(p)
    /\ UNCHANGED <<stores, faults, added>>
    /\ UNCHANGED <<ops, lost, restored>>
    /\ UNCHANGED sessionVars

\* One iteration of the loop of CancelOrder:
\* flowerRepo.UpdateStock(item.FlowerSKU, item.Quantity), its error ignored.
RestoreLine(p, ok) ==
    /\ h[p].pc = "restore"
    /\ LET item == h[p].items[h[p].idx] IN
       stock' = IF ok THEN UpdateStock(stock, item.sku, item.qty) ELSE stock
    /\ h' = [h EXCEPT ![p] =
              IF ~RestoreContinues(ok)
              THEN [Returned("cancel", Err("restore")) EXCEPT
                      !.oid = h[p].oid, !.user = h[p].user]
              ELSE IF h[p].idx < Len(h[p].items) THEN [@ EXCEPT !.idx = @ + 1]
              ELSE [@ EXCEPT !.pc = "status", !.idx = 0, !.items = <<>>]]
    /\ Fault(ok)
    /\ UNCHANGED <<orders, logs, calls, added, pre>>
    /\ restored' = IF ok THEN [restored EXCEPT ![h[p].oid] = @ + h[p].items[h[p].idx].qty]
                   ELSE restored
    /\ UNCHANGED <<ops, lost>>
    /\ UNCHANGED sessionVars

\* Status CompleteOrder / CancelOrder write.
TargetStatus(kind) == IF kind = "complete" THEN StatusCompleted ELSE StatusCancelled

\* orderRepo.UpdateStatus: UPDATE orders SET status = ? WHERE id = ?
UpdateStatus(p, ok) ==
    /\ h[p].pc = "status"
    /\ orders' = IF ok THEN SetStatus(orders, h[p].oid, TargetStatus(h[p].op))
                 ELSE orders
    /\ h' = [h EXCEPT ![p] =
              IF ok THEN [@ EXCEPT !.pc = "log"]
              ELSE [Returned(h[p].op, Err("update")) EXCEPT !.oid = h[p].oid]]
    /\ Fault(ok)
    /\ UNCHANGED <<stock, logs, calls, added, pre>>
    /\ UNCHANGED <<ops, lost, restored>>
    /\ UNCHANGED sessionVars

\* ---------------------------------------------------------------- GetOrder
\* orderService.GetOrder(userID, orderNo): orderRepo.GetByOrderNo, then the
\* owner check; the order is returned only when it passes.
GetOrder(p, userID, orderNo) ==
    /\ h' = [h EXCEPT ![p] =
              IF ~Duplicate(orders, orderNo)
              THEN [Returned("get", Err("notfound")) EXCEPT !.user = userID]
              ELSE LET order == orders[CHOOSE i \in 1..Len(orders) :
                                         orders[i].orderNo = orderNo] IN
                   IF ~Owns(order, userID)
                   THEN [Returned("get", Err("forbidden")) EXCEPT
                           !.user = userID, !.oid = order.id]
                   ELSE [Returned("get", Ok) EXCEPT
                           !.user = userID, !.oid = order.id, !.view = <<order>>]]
    /\ BeginCall(p)
    /\ UNCHANGED <<stores, faults, added>>
    /\ UNCHANGED <<ops, lost, restored>>
    /\ UNCHANGED sessionVars

\* -------------------------------------------------------------- ListOrders
\* orderService.ListOrders(userID, filter): orderRepo.List with the filter's
\* UserID forced to userID; the rows found are returned.
ListOrders(p, userID, status, orderNo, page, pageSize) ==
    /\ BeginCall(p)
    /\ h' = [h EXCEPT ![p] =
              [Returned("list", Ok) EXCEPT
                 !.user = userID, !.filter = status,
                 !.view = List(orders, userID, status, orderNo, page, pageSize)]]
    /\ UNCHANGED <<stores, faults, added>>
    /\ UNCHANGED <<ops, lost, restored>>
    /\ UNCHANGED sessionVars

\* Values of OrderListFilter.Status, and of (Page, PageSize).
Statuses == {"", StatusPending, StatusCompleted, StatusCancelled}
Pages == {<<0, 0>>, <<1, 1>>, <<2, 1>>}

\* ---------------------------------------------------------------- AddStock
\* flowerService.AddStock(sku, quantity): one UpdateStock statement.
AddStock(p, sku, quantity, ok) ==
    /\ quantity > 0 => SumAdded(Catalog) + quantity <= MaxRestock
    /\ quantity < 0 => ok
    /\ IF quantity < 0
       THEN /\ h' = [h EXCEPT ![p] = Returned("addstock", Err("quantity"))]
            /\ UNCHANGED <<stock, added>>
       ELSE IF ~ok \/ sku \notin Catalog
       THEN /\ h' = [h EXCEPT ![p] = Returned("addstock", Err("flower"))]
            /\ UNCHANGED <<stock, added>>
       ELSE /\ h' = [h EXCEPT ![p] = Returned("addstock", Ok)]
            /\ stock' = UpdateStock(stock, sku, quantity)
            /\ added' = [added EXCEPT ![sku] = @ + quantity]
    /\ Fault(ok)
    /\ BeginCall(p)
    /\ UNCHANGED <<orders, logs>>
    /\ UNCHANGED <<ops, lost, restored>>
    /\ UNCHANGED sessionVars

\* The handler has returned; the process is free for the next request.
Return(p) ==
    /\ h[p].pc = "done"
    /\ h' = [h EXCEPT ![p] = Idle]
    /\ pre' = NoSnapshot
    /\ UNCHANGED <<stores, faults, calls, added>>
    /\ UNCHANGED <<ops, lost, restored>>
    /\ UNCHANGED sessionVars

\* ------------------------------------------------- MemorySessionManager
\* A client calls a method.
BeginSession(q) ==
    /\ c[q].pc = "idle"
    /\ sops < MaxSessionOps
    /\ sops' = sops + 1

\* CreateSession up to the mutex: generateToken (ok: it returned no error)
\* and the session built with its deadline.
NewSession(q, token, ok) ==
    /\ BeginSession(q)
    /\ c' = [c EXCEPT ![q] =
              IF ~ok THEN Answered("create", "", "token")
              ELSE [Resting EXCEPT !.pc = "insert", !.op = "create",
                                   !.token = token, !.exp = now + SessionTTL]]
    /\ UNCHANGED <<sessions, now, issued>>
    /\ UNCHANGED orderVars

\* CreateSession under the mutex: m.sessions[token] = session.
InsertSession(q) ==
    /\ c[q].pc = "insert"
    /\ sessions' = Put(sessions, c[q].token, c[q].exp)
    /\ issued' = [issued EXCEPT ![c[q].token] =
                    [created |-> TRUE, removed |-> FALSE, exp |-> c[q].exp]]
    /\ c' = [c EXCEPT ![q] = [@ EXCEPT !.pc = "done", !.result = "ok"]]
    /\ UNCHANGED <<now, sops>>
    /\ UNCHANGED orderVars

\* ValidateSession up to the release of the read lock: the empty-token check
\* and the map lookup.
ValidateSession(q, token) ==
    /\ BeginSession(q)
    /\ c' = [c EXCEPT ![q] =
              IF token = "" THEN Answered("validate", token, "empty")
              ELSE IF token \notin DOMAIN sessions
              THEN [Answered("validate", token, "notfound") EXCEPT
                      !.live = issued[token].created /\ ~issued[token].removed,
                      !.due = issued[token].exp]
              ELSE [Resting EXCEPT
                      !.pc = "expiry", !.op = "validate", !.token = token,
                      !.exp = sessions[token],
                      !.live = issued[token].created /\ ~issued[token].removed,
                      !.due = issued[token].exp]]
    /\ UNCHANGED <<sessions, now, issued>>
    /\ UNCHANGED orderVars

\* ValidateSession after the lookup: time.Now().After(session.ExpiresAt).
CheckExpiry(q) ==
    /\ c[q].pc = "expiry"
    /\ c' = [c EXCEPT ![q] =
              [@ EXCEPT !.pc = "done", !.at = now,
                        !.result = IF Expired(now, c[q].exp) THEN "expired"
                                   ELSE "ok"]]
    /\ UNCHANGED <<sessions, now, sops, issued>>
    /\ UNCHANGED orderVars

\* DeleteSession: the empty-token check, then delete under the mutex.
DeleteSession(q, token) ==
    /\ BeginSession(q)
    /\ IF token = ""
       THEN /\ c' = [c EXCEPT ![q] = Answered("delete", token, "empty")]
            /\ UNCHANGED <<sessions, issued>>
       ELSE /\ c' = [c EXCEPT ![q] = Answered("delete", token, "ok")]
            /\ sessions' = Remove(sessions, token)
            /\ issued' = [issued EXCEPT ![token].removed = TRUE]
    /\ UNCHANGED now
    /\ UNCHANGED orderVars

\* CleanupExpiredSessions: the clock read and the loop, all under the mutex.
CleanupExpiredSessions(q) ==
    /\ BeginSession(q)
    /\ c' = [c EXCEPT ![q] = Answered("cleanup", "", "ok")]
    /\ sessions' = Sweep(sessions, now)
    /\ issued' = [t \in Tokens |->
                    IF t \in DOMAIN sessions /\ t \notin DOMAIN Sweep(sessions, now)
                    THEN [issued[t] EXCEPT !.removed = TRUE]
                    ELSE issued[t]]
    /\ UNCHANGED now
    /\ UNCHANGED orderVars

\* The method has returned; the client is free for its next call.
Leave(q) ==
    /\ c[q].pc = "done"
    /\ c' = [c EXCEPT ![q] = Resting]
    /\ UNCHANGED <<sessions, now, sops, issued>>
    /\ UNCHANGED orderVars

\* The clock advances.
Tick ==
    /\ now < MaxTime
    /\ now' = now + 1
    /\ UNCHANGED <<sessions, c, sops, issued>>
    /\ UNCHANGED orderVars

\* ------------------------------------------------------------ specifications
\* A request arrives at handler p: the entry of the operation it asks for.
Begin(p) ==
    \/ \E u \in Callers, a \in 0..1, n \in 0..MaxLines :
          BeginCreateOrder(p, u, a, n)
    \/ \E k \in {"complete", "cancel"}, id \in 1..MaxOrders, u \in Callers :
          GetByID(p, k, id, u)
    \/ \E u \in Callers, no \in 1..MaxOrders : GetOrder(p, u, no)
    \/ \E u \in Callers, st \in Statuses, no \in 0..1, pg \in Pages :
          ListOrders(p, u, st, no, pg[1], pg[2])
    \/ \E s \in SKUs, q \in -1..1, ok \in Outcomes : AddStock(p, s, q, ok)

\* Handler p runs its next statement.
Run(p) ==
    \/ \E s \in SKUs, q \in -1..MaxQty : ValidateLine(p, s, q)
    \/ \E ok \in Outcomes : DeductLine(p, ok)
    \/ \E no \in OrderNos(orders), ok \in Outcomes : PersistOrder(p, no, ok)
    \/ \E ok \in Outcomes : RollbackLine(p, ok)
    \/ \E ok \in Outcomes : WriteLog(p, ok)
    \/ \E ok \in Outcomes : RestoreLine(p, ok)
    \/ \E ok \in Outcomes : UpdateStatus(p, ok)
    \/ Return(p)

Step(p) == Begin(p) \/ Run(p)

\* Request handlers run concurrently, serving one user.
Next == \E p \in Procs : Step(p)

Spec == Init /\ [][Next]_vars

\* One request at a time, from any user: a call begins only when no other is
\* in flight.
NextSeq ==
    \E p \in Procs :
        \/ /\ Quiescent(p)
           /\ \E u \in Users, a \in 0..1, n \in 0..MaxLines :
                 BeginCreateOrder(p, u, a, n)
        \/ /\ Quiescent(p)
           /\ \E k \in {"complete", "cancel"}, id \in 1..MaxOrders, u \in Users :
                 GetByID(p, k, id, u)
        \/ /\ Quiescent(p)
           /\ \E u \in Users, no \in 1..MaxOrders : GetOrder(p, u, no)
        \/ /\ Quiescent(p)
           /\ \E u \in Users, st \in Statuses, no \in 0..1, pg \in Pages :
                 ListOrders(p, u, st, no, pg[1], pg[2])
        \/ /\ Quiescent(p)
           /\ \E s \in SKUs, q \in -1..1, ok \in Outcomes : AddStock(p, s, q, ok)
        \/ Run(p)

SpecSeq == Init /\ [][NextSeq]_vars

\* Clients of the session manager run concurrently while the clock advances.
NextSession ==
    \/ \E q \in Clients :
          \/ \E t \in Tokens, ok \in BOOLEAN : NewSession(q, t, ok)
          \/ InsertSession(q)
          \/ \E t \in TokenArgs : ValidateSession(q, t)
          \/ CheckExpiry(q)
          \/ \E t \in TokenArgs : DeleteSession(q, t)
          \/ CleanupExpiredSessions(q)
          \/ Leave(q)
    \/ Tick

SpecSession == Init /\ [][NextSession]_vars

TypeOK ==
    /\ stock \in [Catalog -> Int]
    /\ \A p \in Procs : h[p].pc \in {"idle", "validate", "deduct", "persist",
                                    "rollback", "log", "restore", "status", "done"}
    /\ faults \in 0..MaxFaults
    /\ Len(orders) <= MaxOrders

\* ------------------------------------------------------------------ claims
Terminal == {StatusCompleted, StatusCancelled}

\* The handler has got past every step that can make the call fail.
Succeeded(p) ==
    h[p].pc = "log" \/ (h[p].pc = "done" /\ h[p].result.kind = "ok")

\* Quantity of sku on the single-line orders that still hold a reservation
\* (status pending or completed).
RECURSIVE ReservedSingle(_, _)
ReservedSingle(os, sku) ==
    IF os = <<>> THEN 0
    ELSE (IF Head(os).status # StatusCancelled /\ Len(Head(os).items) = 1
          THEN SumQty(Head(os).items, sku) ELSE 0)
         + ReservedSingle(Tail(os), sku)

\* C1: in every reachable state, whatever the interleaving of CreateOrder,
\* CompleteOrder, CancelOrder and AddStock, every item's stock is >= 0.
C1_StockNeverNegative == \A s \in Catalog : stock[s] >= 0

\* C2: concurrent CreateOrder calls for the same item never all succeed when
\* together they ask for more than the item's stock: as long as no repository
\* call has failed, the single-line orders holding a reservation on an item
\* never add up to more than the stock the item ever had (its initial stock
\* plus what AddStock received).
C2_NoOversell ==
    faults = 0 =>
        \A s \in Catalog : ReservedSingle(orders, s) <= InitStock[s] + added[s]

\* C3: when CreateOrder returns an error after it started adjusting stock (a
\* stock deduction failed, or the order write failed), every deduction of the
\* attempt has been undone: stock and orders are as before the call.
C3_FailedCreateUndone ==
    \A p \in Procs :
        (/\ pre.valid
         /\ h[p].pc = "done"
         /\ h[p].op = "create"
         /\ h[p].result.kind \in {"deduct", "create"})
        => stock = pre.stock /\ orders = pre.orders

\* C4: the stock changes of a CreateOrder (CancelOrder) and its order write
\* (status write) are one atomic unit: while the call is the only one in
\* flight, a reader sees either the stores as they were before the call, or
\* the order written (cancelled) together with all of its stock changes.
C4_AtomicUnit ==
    \A p \in Procs :
        (pre.valid /\ h[p].op \in {"create", "cancel"})
        => \/ stock = pre.stock /\ orders = pre.orders
           \/ /\ h[p].op = "create"
              /\ Len(orders) = Len(pre.orders) + 1
              /\ \A s \in Catalog :
                    stock[s] = pre.stock[s] - SumQty(orders[Len(orders)].items, s)
           \/ /\ h[p].op = "cancel"
              /\ h[p].oid <= Len(orders)
              /\ orders[h[p].oid].status = StatusCancelled
              /\ \A s \in Catalog :
                    stock[s] = pre.stock[s] + SumQty(orders[h[p].oid].items, s)

\* C5: a CreateOrder whose request has a line that fails validation (item not
\* found, item inactive, quantity above the current stock) fails, and writes
\* neither stock nor orders: every step of the validation, of the failing line
\* and of the lines accepted before it, leaves the stores unchanged; a line is
\* accepted only if its item exists, is active and has the stock; a line that
\* is not accepted ends the call with an error.
C5_Step(p) ==
    /\ (h[p].pc = "idle" /\ h'[p].op = "create") => UNCHANGED stores
    /\ (h[p].pc = "validate" /\ h'[p] # h[p]) =>
          /\ UNCHANGED stores
          /\ IF h'[p].pc \in {"validate", "deduct"}
             THEN LET line == h'[p].req[Len(h'[p].req)] IN
                  /\ Len(h'[p].req) = Len(h[p].req) + 1
                  /\ line.sku \in Catalog
                  /\ IsActive[line.sku]
                  /\ line.qty <= stock[line.sku]
             ELSE /\ h'[p].pc = "done"
                  /\ h'[p].result.kind \in {"quantity", "flower", "inactive", "stock"}

C5_ValidationFailureWritesNothing == [][\A p \in Procs : C5_Step(p)]_vars

\* C5 witness: a request was rejected for insufficient stock at its second
\* line, after its first line had been accepted.
C5_Witness ==
    \E p \in Procs :
        /\ h[p].pc = "done"
        /\ h[p].op = "create"
        /\ h[p].result.kind = "stock"
        /\ h[p].idx = 2

\* C6: a CreateOrder that succeeds with no other operation interleaved adds
\* exactly one order, pending, with one line item per request line (same item,
\* same quantity), lowers each item's stock by the quantity requested for it
\* and leaves the stock of every other item, and every other order, unchanged.
C6_CreateSuccessEffect ==
    \A p \in Procs :
        (pre.valid /\ h[p].op = "create" /\ Succeeded(p))
        => /\ Len(orders) = Len(pre.orders) + 1
           /\ SubSeq(orders, 1, Len(pre.orders)) = pre.orders
           /\ h[p].oid = Len(orders)
           /\ orders[h[p].oid].status = StatusPending
           /\ Len(orders[h[p].oid].items) = h[p].n
           /\ Len(h[p].req) = h[p].n
           /\ \A i \in 1..h[p].n :
                 /\ orders[h[p].oid].items[i].sku = h[p].req[i].sku
                 /\ orders[h[p].oid].items[i].qty = h[p].req[i].qty
           /\ \A s \in Catalog : stock[s] = pre.stock[s] - SumQty(h[p].req, s)

\* C6 witness: a two-line CreateOrder on two different items has returned
\* success.
C6_Witness ==
    \E p \in Procs :
        /\ pre.valid
        /\ h[p].pc = "done"
        /\ h[p].op = "create"
        /\ h[p].result.kind = "ok"
        /\ h[p].n = 2
        /\ h[p].req[1].sku # h[p].req[2].sku

\* C7: for every persisted order, the total is the sum of its lines'
\* subtotals, each subtotal is unit price times quantity, and the unit price
\* is the catalog sale price of the line's item.
C7_OrderTotals ==
    \A i \in 1..Len(orders) :
        /\ orders[i].total = SumSubtotal(orders[i].items)
        /\ \A j \in 1..Len(orders[i].items) :
              LET it == orders[i].items[j] IN
              /\ it.subtotal = it.unitPrice * it.qty
              /\ it.unitPrice = SalePrice[it.sku]

\* C7 witness: an order with two lines of differently priced items exists.
C7_Witness ==
    \E i \in 1..Len(orders) :
        /\ Len(orders[i].items) = 2
        /\ orders[i].items[1].unitPrice # orders[i].items[2].unitPrice

\* C8: creating an order and then successfully cancelling it is net zero on
\* stock: a CancelOrder that succeeds with no other operation interleaved
\* leaves the order cancelled and every item's stock raised by exactly the
\* quantity the order's lines had taken from it.
C8_CancelRestoresStock ==
    \A p \in Procs :
        (pre.valid /\ h[p].op = "cancel" /\ Succeeded(p))
        => /\ orders[h[p].oid].status = StatusCancelled
           /\ \A s \in Catalog :
                 stock[s] = pre.stock[s] + SumQty(orders[h[p].oid].items, s)

\* C9: CompleteOrder or CancelOrder on an order whose status is completed or
\* cancelled fails with an invalid-transition error naming that status, and
\* changes neither the order, nor any stock, nor the audit log.
C9_Step(p) ==
    (/\ h[p].pc = "idle"
     /\ h'[p].op \in {"complete", "cancel"}
     /\ h'[p].oid <= Len(orders)
     /\ orders[h'[p].oid].status \in Terminal)
    => /\ h'[p].pc = "done"
       /\ h'[p].result = [kind |-> "transition",
                          current |-> orders[h'[p].oid].status]
       /\ UNCHANGED stores

C10_TerminalStatusFinal ==
    [][\A i \in 1..Len(orders) :
          orders[i].status \in Terminal => orders'[i].status = orders[i].status]_vars

\* C11: whenever CancelOrder returns an error, its partial effects have been
\* compensated: the order's status and every item's stock are as they were
\* before the call.
C11_FailedCancelCompensated ==
    \A p \in Procs :
        (/\ pre.valid
         /\ h[p].pc = "done"
         /\ h[p].op = "cancel"
         /\ h[p].result.kind # "ok")
        => stock = pre.stock /\ orders = pre.orders

\* C12: CompleteOrder, whether it succeeds or fails, leaves the stock of every
\* item unchanged: no step of a handler serving CompleteOrder writes stock.
C12_Step(p) ==
    (h'[p] # h[p] /\ (h[p].op = "complete" \/ h'[p].op = "complete"))
    => stock' = stock

C12_CompleteKeepsStock == [][\A p \in Procs : C12_Step(p)]_vars

\* C12 witness: a CompleteOrder has returned success and the order is completed.
C12_Witness ==
    \E p \in Procs :
        /\ h[p].pc = "done"
        /\ h[p].op = "complete"
        /\ h[p].result.kind = "ok"
        /\ orders[h[p].oid].status = StatusCompleted

\* C13: a failure to append the audit log entry never changes the result of
\* CreateOrder, CompleteOrder or CancelOrder: whether logRepo.CreateLog
\* succeeds or fails, the step returns success and leaves the orders (with the
\* new status) and the stock as they are; only the log differs, by the entry.
C13_Step(p) ==
    (h[p].pc = "log" /\ h'[p] # h[p])
    => /\ h'[p].pc = "done"
       /\ h'[p].result = Ok
       /\ h'[p].op = h[p].op
       /\ h'[p].oid = h[p].oid
       /\ stock' = stock
       /\ orders' = orders
       /\ \/ logs' = logs
          \/ logs' = [logs EXCEPT ![h[p].oid] = Append(@, LogOf(p))]

C13_LogFailureIgnored == [][\A p \in Procs : C13_Step(p)]_vars

\* C13 witness: a CancelOrder whose log write failed has returned success; the
\* order is cancelled and its log holds no cancel_order entry.
C13_Witness ==
    \E p \in Procs :
        /\ h[p].pc = "done"
        /\ h[p].op = "cancel"
        /\ h[p].result = Ok
        /\ orders[h[p].oid].status = StatusCancelled
        /\ \A i \in 1..Len(logs[h[p].oid]) :
              logs[h[p].oid][i].action # "cancel_order"

\* Entries of log ls written under action label a.
RECURSIVE CountAction(_, _)
CountAction(ls, a) ==
    IF ls = <<>> THEN 0
    ELSE (IF Head(ls).action = a THEN 1 ELSE 0) + CountAction(Tail(ls), a)

\* C14 as stated: the audit log of each order holds exactly one entry per
\* successful mutating operation performed on that order, and no entry for a
\* failed operation.
C14_OneEntryPerSuccess ==
    \A o \in 1..MaxOrders, a \in Actions : CountAction(logs[o], a) = ops[o][a]

\* C14 amended: the audit log of each order holds one entry per successful
\* mutating operation on that order whose log write did not fail, none for a
\* successful operation whose log write failed, none for a failed operation;
\* and no entry is ever removed or altered once written.
C14_LogMatchesOperations ==
    /\ [](\A o \in 1..MaxOrders, a \in Actions :
             CountAction(logs[o], a) + lost[o][a] = ops[o][a])
    /\ [][\A o \in 1..MaxOrders :
             /\ Len(logs'[o]) >= Len(logs[o])
             /\ SubSeq(logs'[o], 1, Len(logs[o])) = logs[o]]_vars

\* C14 witness: an order was created and cancelled, both successfully, and
\* its log holds one entry: the other log write failed.
C14_Witness ==
    \E o \in 1..MaxOrders :
        /\ ops[o]["create_order"] = 1
        /\ ops[o]["cancel_order"] = 1
        /\ Len(logs[o]) = 1

C16_GetOrderOwnerOnly ==
    \A p \in Procs :
        (h[p].pc = "done" /\ h[p].op = "get")
        => /\ (/\ h[p].oid > 0
               /\ orders[h[p].oid].userID # h[p].user
               /\ h[p].user \notin Clerks)
              => h[p].result.kind = "forbidden" /\ h[p].view = <<>>
           /\ h[p].view # <<>>
              => \/ h[p].view[1].userID = h[p].user
                 \/ h[p].user \in Clerks

\* C16 witness: the customer asked for an order of the other user and was
\* refused.
C16_Witness ==
    \E p \in Procs :
        /\ h[p].pc = "done"
        /\ h[p].op = "get"
        /\ h[p].user \notin Clerks
        /\ h[p].oid > 0
        /\ orders[h[p].oid].userID # h[p].user
        /\ h[p].result.kind = "forbidden"

\* The handler serves a CancelOrder on order i called by a user who neither
\* owns the order nor is staff.
ForeignCancel(p, i) ==
    /\ h[p].op = "cancel"
    /\ h[p].pc \in {"restore", "status", "log"}
    /\ h[p].oid = i
    /\ h[p].user # orders[i].userID
    /\ h[p].user \notin Clerks

\* C17: an order moves from pending to cancelled only through a Cancel by its
\* owner or by staff; a Cancel by any other user leaves the order's status
\* and all stock unchanged.
C17_CancelByOwnerOrStaff ==
    [][\A p \in Procs, i \in 1..Len(orders) :
          (ForeignCancel(p, i) /\ h'[p] # h[p])
          => stock' = stock /\ orders'[i].status = orders[i].status]_vars

\* The CreateOrder call of handler p has returned a validation failure.
ValidationFailure(p) ==
    /\ h[p].pc = "done"
    /\ h[p].op = "create"
    /\ h[p].result.kind \in {"address", "empty", "quantity"}

\* C18 (as stated): a CreateOrder whose destination id is not positive, whose
\* item list is empty or which has a line of quantity <= 0 is rejected as a
\* validation failure before any stock lookup: when it returns, no request
\* line has been looked up (the loop is still at its first line) and the
\* stores are as they were when the call began.
C18_RejectedBeforeAnyLookup ==
    \A p \in Procs :
        ValidationFailure(p)
        => /\ h[p].idx <= 1
           /\ pre.valid => stock = pre.stock /\ orders = pre.orders

\* C18 (amended): a CreateOrder whose destination id is not positive or whose
\* item list is empty is rejected as a validation failure before any request
\* line is looked up; a request line of quantity <= 0 is never accepted: the
\* call stops at that line, before looking the line up, with a validation
\* failure, whatever the line names; every line before it has been looked up
\* and has passed its checks.  A call that stops at a line of quantity <= 0,
\* or returns a validation failure, leaves stock and orders as they were
\* when it began, and no persisted order carries a line of quantity <= 0.
C18_Entry(p) ==
    (h[p].pc = "idle" /\ h'[p].op = "create")
    => /\ h'[p].addr <= 0
          => h'[p].pc = "done" /\ h'[p].result.kind = "address"
       /\ h'[p].pc = "done"
          => /\ h'[p].result.kind \in {"address", "empty"}
             /\ h'[p].result.kind = "empty" => h'[p].addr > 0
             /\ h'[p].idx = 0
       /\ h'[p].pc # "done"
          => /\ h'[p].pc = "validate"
             /\ h'[p].addr > 0
             /\ h'[p].n > 0
             /\ h'[p].idx = 1
             /\ h'[p].req = <<>>
       /\ UNCHANGED <<stock, orders, logs>>

C18_Line(p) ==
    (h[p].pc = "validate" /\ h'[p] # h[p])
    => /\ Len(h'[p].req) > Len(h[p].req)
          => h'[p].req[Len(h'[p].req)].qty > 0
       /\ h'[p].pc = "done"
          => /\ h'[p].line # <<>>
             /\ h'[p].line[1].qty <= 0 <=> h'[p].result.kind = "quantity"
             /\ h'[p].idx = Len(h[p].req) + 1
       /\ UNCHANGED <<stock, orders, logs>>

C18_State ==
    /\ \A p \in Procs :
          (ValidationFailure(p) /\ pre.valid)
          => stock = pre.stock /\ orders = pre.orders
    /\ \A i \in 1..Len(orders) :
          \A j \in 1..Len(orders[i].items) : orders[i].items[j].qty > 0

C18_InvalidRequestRejected ==
    /\ []C18_State
    /\ [][\A p \in Procs : C18_Entry(p) /\ C18_Line(p)]_vars

\* C18 witness: a call stopped at its second line, of quantity 0 and naming
\* an item the catalog does not have, after its first line had been looked
\* up, and left the stores as they were.
C18_Witness ==
    \E p \in Procs :
        /\ ValidationFailure(p)
        /\ h[p].result.kind = "quantity"
        /\ h[p].idx = 2
        /\ h[p].line[1].qty = 0
        /\ h[p].line[1].sku \notin Catalog
        /\ pre.valid
        /\ stock = pre.stock
        /\ orders = pre.orders

UniqueOrderNo ==
    \A i, j \in 1..Len(orders) : orders[i].orderNo = orders[j].orderNo => i = j

\* The CreateOrder call of handler p has returned after its order number
\* collided with a persisted order's.
Collided(p) == h[p].pc = "done" /\ h[p].op = "create" /\ h[p].dup

\* C20: no two persisted orders share an order number; a CreateOrder whose
\* generated order number collides with an existing order's fails, persists
\* nothing and leaves the stock at its value before the call.
C20_CollisionUndone ==
    /\ UniqueOrderNo
    /\ \A p \in Procs :
          (Collided(p) /\ pre.valid)
          => /\ h[p].result.kind # "ok"
             /\ orders = pre.orders
             /\ stock = pre.stock

\* The same, for calls during which no repository write failed other than
\* the refused insert.
CollisionUndoneWithoutFaults ==
    /\ UniqueOrderNo
    /\ \A p \in Procs :
          (Collided(p) /\ pre.valid /\ faults = 0)
          => /\ h[p].result.kind # "ok"
             /\ orders = pre.orders
             /\ stock = pre.stock

\* A collision was undone: the call failed, no write failed, the stores are as
\* they were when the call began.
CollisionUndoneReached ==
    \E p \in Procs :
        /\ Collided(p)
        /\ pre.valid
        /\ faults = 0
        /\ Len(orders) > 0
        /\ stock = pre.stock

\* C21: CompleteOrder and CancelOrder on an order id that does not exist fail
\* as not-found and change nothing: no order, no stock, no audit log entry.
C21_Step(p) ==
    (/\ h[p].pc = "idle"
     /\ h'[p].op \in {"complete", "cancel"}
     /\ h'[p].oid > Len(orders))
    => /\ h'[p].pc = "done"
       /\ h'[p].result.kind = "notfound"
       /\ UNCHANGED stores

C21_UnknownOrderNotFound == [][\A p \in Procs : C21_Step(p)]_vars

\* C21 witness: with an order persisted, a CancelOrder on an id no order has
\* was rejected as not-found.
C21_Witness ==
    \E p \in Procs :
        /\ h[p].pc = "done"
        /\ h[p].op = "cancel"
        /\ h[p].oid > Len(orders)
        /\ Len(orders) > 0
        /\ h[p].result.kind = "notfound"

\* C22: staff can cancel an order in any status: a CancelOrder by a clerk on
\* a completed order is not rejected for the order's status, and when it
\* returns success the order is cancelled and its line quantities are back
\* in stock.
C22_StaffCancelsCompleted ==
    \A p \in Procs :
        (/\ pre.valid
         /\ h[p].pc = "done"
         /\ h[p].op = "cancel"
         /\ h[p].user \in Clerks
         /\ h[p].oid <= Len(pre.orders)
         /\ pre.orders[h[p].oid].status = StatusCompleted)
        => /\ h[p].result.kind # "transition"
           /\ h[p].result.kind = "ok"
              => /\ orders[h[p].oid].status = StatusCancelled
                 /\ \A s \in Catalog :
                       stock[s] = pre.stock[s] + SumQty(orders[h[p].oid].items, s)

\* The request lines accepted for handler p name some item more than once.
RepeatsItem(p) ==
    \E i, j \in 1..Len(h[p].req) : i # j /\ h[p].req[i].sku = h[p].req[j].sku

\* C23: when one CreateOrder request names the same item on several lines,
\* the lines are not merged: each was checked on its own against the item's
\* stock, and if the request succeeds the order has one line item per
\* request line, in request order, and the item's stock has gone down by the
\* sum of the quantities of all its lines.
C23_DuplicateLinesIndependent ==
    \A p \in Procs :
        (pre.valid /\ h[p].op = "create" /\ Succeeded(p) /\ RepeatsItem(p))
        => LET its == orders[h[p].oid].items IN
           /\ Len(its) = Len(h[p].req)
           /\ \A i \in 1..Len(its) :
                 /\ its[i].sku = h[p].req[i].sku
                 /\ its[i].qty = h[p].req[i].qty
                 /\ its[i].qty <= pre.stock[its[i].sku]
           /\ \A s \in Catalog : stock[s] = pre.stock[s] - SumQty(h[p].req, s)

\* C23 witness: a request with two lines for the same item has succeeded,
\* with two line items persisted and the stock lowered by both quantities.
C23_Witness ==
    \E p \in Procs :
        /\ pre.valid
        /\ h[p].pc = "done"
        /\ h[p].op = "create"
        /\ h[p].result.kind = "ok"
        /\ RepeatsItem(p)
        /\ Len(orders[h[p].oid].items) = 2
        /\ \E s \in Catalog : stock[s] = pre.stock[s] - 2

\* Handler p, inside a CancelOrder that has passed the status check, runs its
\* next statement.
Cancelling(p) ==
    /\ h[p].op = "cancel"
    /\ h[p].pc \in {"restore", "status", "log"}
    /\ h'[p] # h[p]

\* C24: CancelOrder restores stock best-effort: when the restoration of one
\* line fails the call goes on to the next line, or after the last line to
\* the status write; the only step that can make the call fail is the status
\* write itself, and when that write succeeds the order is cancelled and the
\* call returns success.
C24_Step(p) ==
    /\ (Cancelling(p) /\ h[p].pc = "restore" /\ faults' = faults + 1)
       => /\ stock' = stock
          /\ h'[p].op = "cancel"
          /\ h'[p].oid = h[p].oid
          /\ IF h[p].idx < Len(h[p].items)
             THEN h'[p].pc = "restore" /\ h'[p].idx = h[p].idx + 1
             ELSE h'[p].pc = "status"
    /\ (Cancelling(p) /\ h'[p].pc = "done" /\ h'[p].result.kind # "ok")
       => h[p].pc = "status" /\ faults' = faults + 1
    /\ (Cancelling(p) /\ h[p].pc = "status" /\ faults' = faults)
       => /\ h'[p].pc = "log"
          /\ orders'[h[p].oid].status = StatusCancelled
    /\ (Cancelling(p) /\ h[p].pc = "log")
       => h'[p].pc = "done" /\ h'[p].result.kind = "ok"

C24_BestEffortRestore == [][\A p \in Procs : C24_Step(p)]_vars

\* C24 witness: a CancelOrder on a two-line order returned success with the
\* order cancelled, although the restoration of its first line had failed:
\* the first line's quantity is missing from stock, the second's is back.
C24_Witness ==
    \E p \in Procs :
        /\ pre.valid
        /\ h[p].pc = "done"
        /\ h[p].op = "cancel"
        /\ h[p].result.kind = "ok"
        /\ orders[h[p].oid].status = StatusCancelled
        /\ LET its == orders[h[p].oid].items IN
           /\ Len(its) = 2
           /\ its[1].sku # its[2].sku
           /\ stock[its[1].sku] = pre.stock[its[1].sku]
           /\ stock[its[2].sku] = pre.stock[its[2].sku] + its[2].qty

ValidateAnswer(q) ==
    (c[q].pc = "done" /\ c[q].op = "validate")
    => (c[q].result = "ok" <=> (c[q].live /\ c[q].at <= c[q].due))

\* Client q calls method op in this step.
Calls(q, op) == c[q].pc = "idle" /\ c'[q].op = op

\* A CleanupExpiredSessions step removes only sessions whose deadline has
\* passed and leaves the others as they are.
CleanupStep(q) ==
    Calls(q, "cleanup")
    => /\ DOMAIN sessions' \subseteq DOMAIN sessions
       /\ \A t \in DOMAIN sessions :
             IF t \in DOMAIN sessions'
             THEN sessions'[t] = sessions[t]
             ELSE now > issued[t].exp

\* C26 (as stated): under any interleaving of the four methods,
\* ValidateSession succeeds exactly when the token was created, has not been
\* deleted or cleaned up and has not expired; DeleteSession of a token the
\* map does not hold succeeds without effect; CleanupExpiredSessions removes
\* only expired sessions.
C26_SessionLifecycle ==
    /\ [](\A q \in Clients : ValidateAnswer(q))
    /\ [][\A q \in Clients :
            /\ CleanupStep(q)
            /\ (Calls(q, "delete") /\ c'[q].token \notin DOMAIN sessions)
               => c'[q].result = "ok" /\ sessions' = sessions]_vars

\* C26 (amended): the same, with DeleteSession of a non-empty token the map
\* does not hold succeeding without effect, and DeleteSession of the empty
\* token failing, without effect too.
C26_SessionLifecycleNonEmpty ==
    /\ [](\A q \in Clients : ValidateAnswer(q))
    /\ [][\A q \in Clients :
            /\ CleanupStep(q)
            /\ (/\ Calls(q, "delete")
                /\ c'[q].token \notin DOMAIN sessions
                /\ c'[q].token # "")
               => c'[q].result = "ok" /\ sessions' = sessions
            /\ (Calls(q, "delete") /\ c'[q].token = "")
               => c'[q].result = "empty" /\ sessions' = sessions]_vars

\* C26 witness: a DeleteSession of a token never created has returned
\* success while a ValidateSession of a created token was between its lookup
\* and its reading of the clock, and that ValidateSession has succeeded.
C26_Witness ==
    \E q, r \in Clients :
        /\ c[q].pc = "done"
        /\ c[q].op = "validate"
        /\ c[q].result = "ok"
        /\ c[r].pc = "done"
        /\ c[r].op = "delete"
        /\ c[r].result = "ok"
        /\ c[r].token \in Tokens
        /\ ~issued[c[r].token].created
        /\ c[q].token \in DOMAIN sessions

\* C27: when the stock adjustment of line k fails inside CreateOrder, the
\* compensation restores exactly the lines 1..k-1 already decremented, each
\* by its own quantity, and nothing else, also when the failing line names
\* the item of an earlier line: once the call has returned the deduction
\* error, every item's stock is what it was when the call began.
C27_CompensationExact ==
    \A p \in Procs :
        (/\ pre.valid
         /\ h[p].pc = "done"
         /\ h[p].op = "create"
         /\ h[p].result.kind = "deduct")
        => \A s \in Catalog : stock[s] = pre.stock[s]

\* The same, for a compensation still under way: no item's stock is ever
\* above its value at the call's entry, so nothing is restored twice or
\* restored without having been decremented.
CompensationNeverExceeds ==
    \A p \in Procs :
        (pre.valid /\ h[p].op = "create" /\ h[p].result.kind # "ok")
        => \A s \in Catalog : stock[s] <= pre.stock[s]

\* Sum of the quantities of the line items its.
RECURSIVE TotalQty(_)
TotalQty(its) == IF its = <<>> THEN 0 ELSE Head(its).qty + TotalQty(Tail(its))

\* C28: for every order, across any interleaving of CancelOrder and
\* CompleteOrder calls, the quantity returned to stock on behalf of the order
\* is at most the sum of its line quantities: its reservation is restored at
\* most once.
C28_RestoredAtMostOnce ==
    \A o \in 1..Len(orders) : restored[o] <= TotalQty(orders[o].items)

\* Quantity of sku on the orders that hold a reservation (status pending or
\* completed).
RECURSIVE Reserved(_, _)
Reserved(os, sku) ==
    IF os = <<>> THEN 0
    ELSE (IF Head(os).status # StatusCancelled THEN SumQty(Head(os).items, sku)
          ELSE 0)
         + Reserved(Tail(os), sku)

\* No operation is in flight: every handler is free or has returned.
NoneInFlight == \A p \in Procs : h[p].pc \in {"idle", "done"}

\* C29: stock conservation: in every state where no operation is in flight,
\* every item's stock equals its initial stock plus the quantities AddStock
\* added minus the line quantities for the item over all orders in status
\* pending or completed.
C29_StockConservation ==
    NoneInFlight
    => \A s \in Catalog :
          stock[s] = InitStock[s] + added[s] - Reserved(orders, s)

\* The same, as long as no repository write has returned an error; it holds
\* of SpecSeq, where one request runs at a time.
ConservationWithoutFaults ==
    (NoneInFlight /\ faults = 0)
    => \A s \in Catalog :
          stock[s] = InitStock[s] + added[s] - Reserved(orders, s)

\* The first audit entry of every order is create_order with empty prior
\* status.
HistoryStartsWithCreate ==
    \A o \in 1..MaxOrders :
        logs[o] # <<>>
        => /\ logs[o][1].action = "create_order"
           /\ logs[o][1].oldStatus = ""

\* Every later audit entry's prior status is the new status of the entry
\* before it.
HistoryChained ==
    \A o \in 1..MaxOrders : \A i \in 2..Len(logs[o]) :
        logs[o][i].oldStatus = logs[o][i - 1].newStatus

\* An order has at most one audit entry whose new status is terminal.
HistoryOneTerminal ==
    \A o \in 1..MaxOrders :
        Cardinality({i \in 1..Len(logs[o]) : logs[o][i].newStatus \in Terminal}) <= 1

\* C30: the audit entries of one order, in append order, form a consistent
\* history: the first entry is create_order with empty prior status, every
\* later entry's prior status equals the new status of the entry before it,
\* and at most one entry has new status completed or cancelled, also when
\* CompleteOrder and CancelOrder run concurrently on the same order.
C30_ConsistentHistory ==
    /\ HistoryStartsWithCreate
    /\ HistoryChained
    /\ HistoryOneTerminal

\* The single-terminal-entry part, as long as no repository write has
\* returned an error.
OneTerminalWithoutFaults == faults = 0 => HistoryOneTerminal

====
